---- MODULE Spec2Model ----
(***************************************************************************)
(* The four data-race demonstrations of main.go, one statement per step:   *)
(* the main goroutine runs main() and the function it is calling, and each *)
(* `go func` starts a goroutine that is scheduled independently of it.     *)
(***************************************************************************)
EXTENDS Integers, Sequences, FiniteSets, TLC

VARIABLES
    pc,      \* the statement the main goroutine executes next
    out,     \* the transcript written by fmt.Println
    ret,     \* the value each pattern has handed to main, by pattern
    wgI,     \* blockingWithWaitgroups: i
    wg,      \* blockingWithWaitgroups: the counter of wg
    wgG,     \* blockingWithWaitgroups: position of the spawned goroutine
    chI,     \* blockingWithChannel: i
    done,    \* blockingWithChannel: the channel done
    chG,     \* blockingWithChannel: position of the spawned goroutine
    c,       \* returningWithChannel: the channel c
    rcG,     \* returningWithChannel: position of the spawned goroutine
    sn,      \* useMutex: the safeNumber i, [val, m]
    getRet,  \* safeNumber.get: the result evaluated by `return i.val`
    muG,     \* useMutex: position of the spawned goroutine
    count    \* how many times each kind of event has happened

vars == <<pc, out, ret, wgI, wg, wgG, chI, done, chG, c, rcG, sn, getRet, muG, count>>

wgVars == <<wgI, wg, wgG>>
chVars == <<chI, done, chG>>
rcVars == <<c, rcG>>
muVars == <<sn, getRet, muG>>

----------------------------------------------------------------------------
(* The values the goroutines write.                                        *)

WgVal == 5
ChVal == 5
RcVal == 5
SetVal == 5

Token == "struct{}{}"

Events == {"wg.Add", "wg.Done", "wg.Wait", "wgI.write", "chI.write",
           "done.send", "done.recv", "c.send", "c.recv", "val.write", "val.read"}

Bump(e) == count' = [count EXCEPT ![e] = @ + 1]

Bump2(e1, e2) == count' = [count EXCEPT ![e1] = @ + 1, ![e2] = @ + 1]

----------------------------------------------------------------------------
(* sync.WaitGroup                                                          *)

WgAdd(n, delta) == n + delta

\* Done that takes two units off the counter.
WgDoneTwice(n) == WgAdd(n, -2)

WgDone(n) == WgAdd(n, -1)

\* Wait that returns whatever the counter is.
WgWaitReadyAlways(n) == TRUE

WgWaitReady(n) == n = 0

----------------------------------------------------------------------------
(* An unbuffered channel: the values of the senders parked on it, whether  *)
(* a receiver is parked on it, and whether it has been closed.             *)

MakeChan == [sendq |-> << >>, recvq |-> FALSE, closed |-> FALSE]

SenderParked(ch) == Len(ch.sendq) > 0

ReceiverParked(ch) == ch.recvq

\* A send finds a parked receiver and hands its value over, or parks.
SendHandsOver(ch) == ReceiverParked(ch)

\* A receive finds a parked sender and takes its value, or parks.
RecvTakes(ch) == SenderParked(ch)

ParkSender(ch, v) == [ch EXCEPT !.sendq = Append(@, v)]

WakeSender(ch) == [ch EXCEPT !.sendq = Tail(@)]

ParkReceiver(ch) == [ch EXCEPT !.recvq = TRUE]

WakeReceiver(ch) == [ch EXCEPT !.recvq = FALSE]

----------------------------------------------------------------------------
(* sync.Mutex                                                              *)

\* Lock that never blocks.
MutexFreeAlways(m) == TRUE

MutexFree(m) == ~m

Running == pc # "exit"

Returned(p) == p \in DOMAIN ret

Return(p, v) == ret' = ret @@ (p :> v)

Println(v) == out' = Append(out, v)

----------------------------------------------------------------------------
Init ==
    /\ pc = "m_label1"
    /\ out = << >>
    /\ ret = [p \in {} |-> 0]
    /\ wgI = 0 /\ wg = 0 /\ wgG = "none"
    /\ chI = 0 /\ done = MakeChan /\ chG = "none"
    /\ c = MakeChan /\ rcG = "none"
    /\ sn = [val |-> 0, m |-> FALSE] /\ getRet = 0 /\ muG = "none"
    /\ count = [e \in Events |-> 0]

----------------------------------------------------------------------------
(* blockingWithWaitgroups, called from main                                *)

MainLabel1 ==
    /\ pc = "m_label1"
    /\ Println("Blocking With waitgroups")
    /\ pc' = "wg_add"
    /\ UNCHANGED <<ret, wgVars, chVars, rcVars, muVars, count>>

WgAddOne ==
    /\ pc = "wg_add"
    /\ wg' = WgAdd(wg, 1)
    /\ Bump("wg.Add")
    /\ pc' = "wg_go"
    /\ UNCHANGED <<out, ret, wgI, wgG, chVars, rcVars, muVars>>

WgGo ==
    /\ pc = "wg_go"
    /\ wgG' = "write"
    /\ pc' = "wg_wait"
    /\ UNCHANGED <<out, ret, wgI, wg, chVars, rcVars, muVars, count>>

\* A Wait that sleeps until a Done wakes it, without looking at the counter
\* first.
WgWaitForSignal ==
    /\ pc = "wg_wait"
    /\ count["wg.Done"] >= 1
    /\ WgWaitReady(wg)
    /\ Bump("wg.Wait")
    /\ pc' = "wg_return"
    /\ UNCHANGED <<out, ret, wgVars, chVars, rcVars, muVars>>

WgWait ==
    /\ pc = "wg_wait"
    /\ WgWaitReady(wg)
    /\ Bump("wg.Wait")
    /\ pc' = "wg_return"
    /\ UNCHANGED <<out, ret, wgVars, chVars, rcVars, muVars>>

WgReturn ==
    /\ pc = "wg_return"
    /\ Return("wg", wgI)
    /\ pc' = "m_print1"
    /\ UNCHANGED <<out, wgVars, chVars, rcVars, muVars, count>>

MainPrint1 ==
    /\ pc = "m_print1"
    /\ Println(ret["wg"])
    /\ pc' = "m_label2"
    /\ UNCHANGED <<ret, wgVars, chVars, rcVars, muVars, count>>

(* the goroutine of blockingWithWaitgroups *)

WgGWrite ==
    /\ Running /\ wgG = "write"
    /\ wgI' = WgVal
    /\ Bump("wgI.write")
    /\ wgG' = "done"
    /\ UNCHANGED <<pc, out, ret, wg, chVars, rcVars, muVars>>

\* A goroutine that ends without calling wg.Done.
WgGNoDone ==
    /\ Running /\ wgG = "done"
    /\ wgG' = "ret"
    /\ UNCHANGED <<pc, out, ret, wgI, wg, chVars, rcVars, muVars, count>>

WgGDone ==
    /\ Running /\ wgG = "done"
    /\ wg' = WgDone(wg)
    /\ Bump("wg.Done")
    /\ wgG' = "ret"
    /\ UNCHANGED <<pc, out, ret, wgI, chVars, rcVars, muVars>>

\* A goroutine that writes i once more after wg.Done.
WgGWriteAfterDone ==
    /\ Running /\ wgG = "ret"
    /\ wgI' = WgVal + 1
    /\ Bump("wgI.write")
    /\ wgG' = "exited"
    /\ UNCHANGED <<pc, out, ret, wg, chVars, rcVars, muVars>>

WgGExit ==
    /\ Running /\ wgG = "ret"
    /\ wgG' = "exited"
    /\ UNCHANGED <<pc, out, ret, wgI, wg, chVars, rcVars, muVars, count>>

----------------------------------------------------------------------------
(* blockingWithChannel, called from main                                   *)

MainLabel2 ==
    /\ pc = "m_label2"
    /\ Println("Blocking With channels")
    /\ pc' = "ch_make"
    /\ UNCHANGED <<ret, wgVars, chVars, rcVars, muVars, count>>

ChMake ==
    /\ pc = "ch_make"
    /\ done' = MakeChan
    /\ pc' = "ch_go"
    /\ UNCHANGED <<out, ret, wgVars, chI, chG, rcVars, muVars, count>>

ChGo ==
    /\ pc = "ch_go"
    /\ chG' = "write"
    /\ pc' = "ch_recv"
    /\ UNCHANGED <<out, ret, wgVars, chI, done, rcVars, muVars, count>>

\* A receive that goes on when no sender is parked (select with default).
ChRecvNoWait ==
    /\ pc = "ch_recv"
    /\ IF RecvTakes(done)
         THEN /\ done' = WakeSender(done)
              /\ chG' = "ret"
              /\ Bump2("done.send", "done.recv")
         ELSE UNCHANGED <<done, chG, count>>
    /\ pc' = "ch_return"
    /\ UNCHANGED <<out, ret, wgVars, chI, rcVars, muVars>>

\* <-done: take the token of the parked sender and make it runnable, or park.
ChRecv ==
    /\ pc = "ch_recv"
    /\ IF RecvTakes(done)
         THEN /\ done' = WakeSender(done)
              /\ chG' = "ret"
              /\ Bump2("done.send", "done.recv")
              /\ pc' = "ch_return"
         ELSE /\ done' = ParkReceiver(done)
              /\ pc' = "ch_recv_parked"
              /\ UNCHANGED <<chG, count>>
    /\ UNCHANGED <<out, ret, wgVars, chI, rcVars, muVars>>

ChReturn ==
    /\ pc = "ch_return"
    /\ Return("ch", chI)
    /\ pc' = "m_print2"
    /\ UNCHANGED <<out, wgVars, chVars, rcVars, muVars, count>>

MainPrint2 ==
    /\ pc = "m_print2"
    /\ Println(ret["ch"])
    /\ pc' = "m_label3"
    /\ UNCHANGED <<ret, wgVars, chVars, rcVars, muVars, count>>

(* the goroutine of blockingWithChannel *)

\* A goroutine that assigns the i of blockingWithWaitgroups (one i for all).
ChGWriteOtherI ==
    /\ Running /\ chG = "write"
    /\ wgI' = ChVal + 1
    /\ chI' = ChVal
    /\ Bump("chI.write")
    /\ chG' = "send"
    /\ UNCHANGED <<pc, out, ret, wg, wgG, done, rcVars, muVars>>

\* A goroutine that assigns a variable of its own (i := 5).
ChGWriteShadowed ==
    /\ Running /\ chG = "write"
    /\ chG' = "send"
    /\ UNCHANGED <<pc, out, ret, wgVars, chI, done, rcVars, muVars, count>>

ChGWrite ==
    /\ Running /\ chG = "write"
    /\ chI' = ChVal
    /\ Bump("chI.write")
    /\ chG' = "send"
    /\ UNCHANGED <<pc, out, ret, wgVars, done, rcVars, muVars>>

\* A send on a channel with room for one token (make(chan struct{}, 1)): it
\* completes without a receiver.
ChGSendBuffered ==
    /\ Running /\ chG = "send"
    /\ IF SendHandsOver(done)
         THEN /\ done' = WakeReceiver(done)
              /\ pc' = "ch_return"
              /\ Bump2("done.send", "done.recv")
         ELSE /\ done' = ParkSender(done, Token)
              /\ Bump("done.send")
              /\ UNCHANGED pc
    /\ chG' = "ret"
    /\ UNCHANGED <<out, ret, wgVars, chI, rcVars, muVars>>

\* done <- struct{}{}: hand the token to the parked receiver and make it
\* runnable, or park until a receiver comes.
ChGSend ==
    /\ Running /\ chG = "send"
    /\ IF SendHandsOver(done)
         THEN /\ done' = WakeReceiver(done)
              /\ pc' = "ch_return"
              /\ Bump2("done.send", "done.recv")
              /\ chG' = "ret"
         ELSE /\ done' = ParkSender(done, Token)
              /\ chG' = "parked"
              /\ UNCHANGED <<pc, count>>
    /\ UNCHANGED <<out, ret, wgVars, chI, rcVars, muVars>>

ChGExit ==
    /\ Running /\ chG = "ret"
    /\ chG' = "exited"
    /\ UNCHANGED <<pc, out, ret, wgVars, chI, done, rcVars, muVars, count>>

----------------------------------------------------------------------------
(* returningWithChannel, and the receive of main on the channel returned   *)

\* A driver that calls useMutex where it should call returningWithChannel.
MainLabel3ThenMutex ==
    /\ pc = "m_label3"
    /\ Println("Returning a channels")
    /\ pc' = "mu_new"
    /\ UNCHANGED <<ret, wgVars, chVars, rcVars, muVars, count>>

MainLabel3 ==
    /\ pc = "m_label3"
    /\ Println("Returning a channels")
    /\ pc' = "rc_make"
    /\ UNCHANGED <<ret, wgVars, chVars, rcVars, muVars, count>>

RcMake ==
    /\ pc = "rc_make"
    /\ c' = MakeChan
    /\ pc' = "rc_go"
    /\ UNCHANGED <<out, ret, wgVars, chVars, rcG, muVars, count>>

RcGo ==
    /\ pc = "rc_go"
    /\ rcG' = "send"
    /\ pc' = "rc_return"
    /\ UNCHANGED <<out, ret, wgVars, chVars, c, muVars, count>>

\* A return that waits until the goroutine has come to its send.
RcReturnAfterSend ==
    /\ pc = "rc_return"
    /\ rcG # "send"
    /\ pc' = "m_recv"
    /\ UNCHANGED <<out, ret, wgVars, chVars, rcVars, muVars, count>>

RcReturn ==
    /\ pc = "rc_return"
    /\ pc' = "m_recv"
    /\ UNCHANGED <<out, ret, wgVars, chVars, rcVars, muVars, count>>

\* i := <-returningWithChannel(): the receive itself.
MainRecv ==
    /\ pc = "m_recv"
    /\ IF RecvTakes(c)
         THEN /\ Return("rc", Head(c.sendq))
              /\ c' = WakeSender(c)
              /\ rcG' = "ret"
              /\ Bump2("c.send", "c.recv")
              /\ pc' = "m_print3"
         ELSE /\ c' = ParkReceiver(c)
              /\ pc' = "m_recv_parked"
              /\ UNCHANGED <<ret, rcG, count>>
    /\ UNCHANGED <<out, wgVars, chVars, muVars>>

MainPrint3 ==
    /\ pc = "m_print3"
    /\ Println(ret["rc"])
    /\ pc' = "m_label4"
    /\ UNCHANGED <<ret, wgVars, chVars, rcVars, muVars, count>>

(* the goroutine of returningWithChannel *)

\* A send on a channel with room for one value (make(chan int, 1)): it
\* completes without a receiver.
RcGSendBuffered ==
    /\ Running /\ rcG = "send"
    /\ IF SendHandsOver(c)
         THEN /\ Return("rc", RcVal)
              /\ c' = WakeReceiver(c)
              /\ pc' = "m_print3"
              /\ Bump2("c.send", "c.recv")
         ELSE /\ c' = ParkSender(c, RcVal)
              /\ Bump("c.send")
              /\ UNCHANGED <<pc, ret>>
    /\ rcG' = "ret"
    /\ UNCHANGED <<out, wgVars, chVars, muVars>>

\* A send on a channel nobody receives from (a nil channel): it parks for good.
RcGSendNil ==
    /\ Running /\ rcG = "send"
    /\ rcG' = "parked"
    /\ UNCHANGED <<pc, out, ret, wgVars, chVars, c, muVars, count>>

\* c <- 5
RcGSend ==
    /\ Running /\ rcG = "send"
    /\ IF SendHandsOver(c)
         THEN /\ Return("rc", RcVal)
              /\ c' = WakeReceiver(c)
              /\ pc' = "m_print3"
              /\ Bump2("c.send", "c.recv")
              /\ rcG' = "ret"
         ELSE /\ c' = ParkSender(c, RcVal)
              /\ rcG' = "parked"
              /\ UNCHANGED <<pc, ret, count>>
    /\ UNCHANGED <<out, wgVars, chVars, muVars>>

\* A goroutine that sends in a loop (for { c <- 5 }).
RcGLoop ==
    /\ Running /\ rcG = "ret"
    /\ rcG' = "send"
    /\ UNCHANGED <<pc, out, ret, wgVars, chVars, c, muVars, count>>

RcGExit ==
    /\ Running /\ rcG = "ret"
    /\ rcG' = "exited"
    /\ UNCHANGED <<pc, out, ret, wgVars, chVars, c, muVars, count>>

----------------------------------------------------------------------------
(* useMutex with safeNumber.get, called from main                          *)

MainLabel4 ==
    /\ pc = "m_label4"
    /\ Println("Using Mutex")
    /\ pc' = "mu_new"
    /\ UNCHANGED <<ret, wgVars, chVars, rcVars, muVars, count>>

\* A safeNumber that starts from another value (&safeNumber{val: 1}).
MuNewNonZero ==
    /\ pc = "mu_new"
    /\ sn' = [val |-> 1, m |-> FALSE]
    /\ pc' = "mu_go"
    /\ UNCHANGED <<out, ret, wgVars, chVars, rcVars, getRet, muG, count>>

MuNew ==
    /\ pc = "mu_new"
    /\ sn' = [val |-> 0, m |-> FALSE]
    /\ pc' = "mu_go"
    /\ UNCHANGED <<out, ret, wgVars, chVars, rcVars, getRet, muG, count>>

MuGo ==
    /\ pc = "mu_go"
    /\ muG' = "set_lock"
    /\ pc' = "get_lock"
    /\ UNCHANGED <<out, ret, wgVars, chVars, rcVars, sn, getRet, count>>

\* A get that unlocks at once (i.m.Unlock() without defer), and reads after.
GetLockNotHeld ==
    /\ pc = "get_lock"
    /\ MutexFree(sn.m)
    /\ pc' = "get_read"
    /\ UNCHANGED <<out, ret, wgVars, chVars, rcVars, sn, getRet, muG, count>>

GetLock ==
    /\ pc = "get_lock"
    /\ MutexFree(sn.m)
    /\ sn' = [sn EXCEPT !.m = TRUE]
    /\ pc' = "get_read"
    /\ UNCHANGED <<out, ret, wgVars, chVars, rcVars, getRet, muG, count>>

\* return i.val: the result is evaluated while the lock is held.
GetRead ==
    /\ pc = "get_read"
    /\ getRet' = sn.val
    /\ Bump("val.read")
    /\ pc' = "get_unlock"
    /\ UNCHANGED <<out, ret, wgVars, chVars, rcVars, sn, muG>>

\* the deferred i.m.Unlock() of get
GetUnlock ==
    /\ pc = "get_unlock"
    /\ sn' = [sn EXCEPT !.m = FALSE]
    /\ pc' = "mu_return"
    /\ UNCHANGED <<out, ret, wgVars, chVars, rcVars, getRet, muG, count>>

MuReturn ==
    /\ pc = "mu_return"
    /\ Return("mu", getRet)
    /\ pc' = "m_print4"
    /\ UNCHANGED <<out, wgVars, chVars, rcVars, muVars, count>>

\* the last statement of main: when main returns the program exits.
MainPrint4 ==
    /\ pc = "m_print4"
    /\ Println(ret["mu"])
    /\ pc' = "exit"
    /\ UNCHANGED <<ret, wgVars, chVars, rcVars, muVars, count>>

(* the goroutine of useMutex: i.set(5) *)

SetLock ==
    /\ Running /\ muG = "set_lock"
    /\ MutexFree(sn.m)
    /\ sn' = [sn EXCEPT !.m = TRUE]
    /\ muG' = "set_write"
    /\ UNCHANGED <<pc, out, ret, wgVars, chVars, rcVars, getRet, count>>

SetWrite ==
    /\ Running /\ muG = "set_write"
    /\ sn' = [sn EXCEPT !.val = SetVal]
    /\ Bump("val.write")
    /\ muG' = "set_unlock"
    /\ UNCHANGED <<pc, out, ret, wgVars, chVars, rcVars, getRet>>

\* set without its deferred Unlock.
SetNoUnlock ==
    /\ Running /\ muG = "set_unlock"
    /\ muG' = "ret"
    /\ UNCHANGED <<pc, out, ret, wgVars, chVars, rcVars, sn, getRet, count>>

\* the deferred i.m.Unlock() of set
SetUnlock ==
    /\ Running /\ muG = "set_unlock"
    /\ sn' = [sn EXCEPT !.m = FALSE]
    /\ muG' = "ret"
    /\ UNCHANGED <<pc, out, ret, wgVars, chVars, rcVars, getRet, count>>

MuGExit ==
    /\ Running /\ muG = "ret"
    /\ muG' = "exited"
    /\ UNCHANGED <<pc, out, ret, wgVars, chVars, rcVars, sn, getRet, count>>

----------------------------------------------------------------------------
Main ==
    \/ MainLabel1 \/ WgAddOne \/ WgGo \/ WgWait \/ WgReturn \/ MainPrint1
    \/ MainLabel2 \/ ChMake \/ ChGo \/ ChRecv \/ ChReturn \/ MainPrint2
    \/ MainLabel3 \/ RcMake \/ RcGo \/ RcReturn \/ MainRecv \/ MainPrint3
    \/ MainLabel4 \/ MuNew \/ MuGo \/ GetLock \/ GetRead \/ GetUnlock
    \/ MuReturn \/ MainPrint4

WgGoroutine == WgGWrite \/ WgGDone \/ WgGExit

ChGoroutine == ChGWrite \/ ChGSend \/ ChGExit

RcGoroutine == RcGSend \/ RcGExit

MuGoroutine == SetLock \/ SetWrite \/ SetUnlock \/ MuGExit

Next == Main \/ WgGoroutine \/ ChGoroutine \/ RcGoroutine \/ MuGoroutine

Spec == Init /\ [][Next]_vars

\* The Go scheduler runs every runnable goroutine eventually.
FairSpec ==
    /\ Spec
    /\ WF_vars(Main)
    /\ WF_vars(WgGoroutine)
    /\ WF_vars(ChGoroutine)
    /\ WF_vars(RcGoroutine)
    /\ WF_vars(MuGoroutine)

----------------------------------------------------------------------------
(* Properties                                                              *)

----------------------------------------------------------------------------
(* The counter rendezvous with no task to wait for: the routine of          *)
(* blockingWithWaitgroups without its Add and its go statement, so that     *)
(* Wait is called on a counter that was never raised.  main.go has no such  *)
(* call; ZeroSpec lets the routine take either form.                        *)

WgNoTasks ==
    /\ pc = "wg_add"
    /\ pc' = "wg_wait"
    /\ UNCHANGED <<out, ret, wgVars, chVars, rcVars, muVars, count>>

NextZero == Next \/ WgNoTasks

ZeroSpec == Init /\ [][NextZero]_vars

\* The statements of the main goroutine in the order main runs them; the
\* two parked positions are those of a receive that is waiting for its sender.
MainPcs ==
    << "m_label1", "wg_add", "wg_go", "wg_wait", "wg_return", "m_print1",
       "m_label2", "ch_make", "ch_go", "ch_recv", "ch_recv_parked", "ch_return",
       "m_print2",
       "m_label3", "rc_make", "rc_go", "rc_return", "m_recv", "m_recv_parked",
       "m_print3",
       "m_label4", "mu_new", "mu_go", "get_lock", "get_read", "get_unlock",
       "mu_return", "m_print4", "exit" >>

PcIndex(p) == CHOOSE k \in 1..Len(MainPcs) : MainPcs[k] = p

\* main is at statement p or past it
Reached(p) == PcIndex(pc) >= PcIndex(p)

\* main is past statement p
Past(p) == PcIndex(pc) > PcIndex(p)

IsPrefix(s, t) == Len(s) <= Len(t) /\ \A k \in 1..Len(s) : s[k] = t[k]

Transcript(v) ==
    << "Blocking With waitgroups", 5, "Blocking With channels", 5,
       "Returning a channels", 5, "Using Mutex", v >>

InGet == pc \in {"get_read", "get_unlock"}

InSet == muG \in {"set_write", "set_unlock"}

GetOver == pc \in {"mu_return", "m_print4", "exit"}

SetOver == muG \in {"ret", "exited"}

\* C1: blockingWithWaitgroups returns 5 and never 0: when the caller reads i
\* (after Wait) the goroutine has written i = 5 and has called Done.
C1_WaitgroupsReturns5 ==
    /\ pc = "wg_return" =>
         wgI = 5 /\ count["wgI.write"] = 1 /\ count["wg.Done"] = 1
    /\ Returned("wg") => ret["wg"] = 5

C1_Witness == pc = "m_print1" /\ Returned("wg") /\ count["wg.Wait"] = 1

\* C2: blockingWithChannel returns 5 and never 0: when the caller's receive
\* on done has completed the goroutine has written i = 5.
C2_ChannelReturns5 ==
    /\ pc = "ch_return" =>
         chI = 5 /\ count["chI.write"] = 1 /\ count["done.recv"] = 1
    /\ Returned("ch") => ret["ch"] = 5

C2_Witness == pc = "m_print2" /\ Returned("ch") /\ count["done.recv"] = 1

\* C3 as stated: every pattern returns exactly 5, useMutex too, so the fourth
\* value of the transcript is always 5.
C3_AllReturn5 ==
    /\ \A p \in DOMAIN ret : ret[p] = 5
    /\ pc = "exit" => out[8] = 5

\* C3 as amended: the first three patterns return exactly 5; useMutex returns
\* 5 or 0, so the fourth value of the transcript is 5 or 0.
C3_FirstThreeReturn5 ==
    /\ \A p \in DOMAIN ret \ {"mu"} : ret[p] = 5
    /\ Len(out) >= 2 => out[2] = 5
    /\ Len(out) >= 4 => out[4] = 5
    /\ Len(out) >= 6 => out[6] = 5
    /\ Len(out) >= 8 => out[8] \in {0, 5}

C3_Witness == pc = "exit" /\ out[2] = 5 /\ out[4] = 5 /\ out[6] = 5 /\ out[8] = 5

\* C4: the value useMutex returns is 0 or 5 and no other; where the caller is
\* at get's Lock and the goroutine at set's Lock either may take the lock, so
\* both outcomes happen.
C4_MutexReturns0Or5 ==
    /\ Returned("mu") => ret["mu"] \in {0, 5}
    /\ count["val.read"] = 1 => getRet \in {0, 5}
    /\ (pc = "get_lock" /\ muG = "set_lock") => ENABLED GetLock /\ ENABLED SetLock

C4_Witness == Returned("mu") /\ ret["mu"] = 0 /\ count["val.write"] = 1

\* C5: get and set exclude each other: the caller is never between get's Lock
\* and Unlock while the goroutine is between set's Lock and Unlock.
C5_MutualExclusion == ~(InGet /\ InSet)

C5_Witness == InGet /\ muG = "set_lock" /\ ~ENABLED SetLock

\* C6: returningWithChannel never blocks: each of its statements is enabled
\* whatever the goroutine has done, the return also while the goroutine has
\* not come to its send.
C6_ReturnNeverBlocks ==
    /\ pc = "rc_make" => ENABLED RcMake
    /\ pc = "rc_go" => ENABLED RcGo
    /\ pc = "rc_return" => ENABLED RcReturn

C6_Witness == pc = "m_recv" /\ rcG = "send" /\ ~SenderParked(c)

\* C7: the first receive on the returned channel yields 5; under fair
\* scheduling the receive completes; and it completes only in a step where
\* the send has been offered (the sender is parked) or is being made.
C7_FirstReceive ==
    /\ [](Returned("rc") => ret["rc"] = 5)
    /\ (pc = "m_recv") ~> Returned("rc")
    /\ [][(~Returned("rc") /\ Returned("rc")') =>
            (SenderParked(c) \/ (rcG = "send" /\ rcG' = "ret"))]_vars

C7_Witness == pc = "m_print3" /\ Returned("rc") /\ ret["rc"] = 5

\* C8: single delivery: at most one send is made on c; after the first
\* receive one send and one receive have been made, no sender is parked on c,
\* the goroutine is past its send and c is not closed, so a second receive
\* would find nothing.
C8_SingleDelivery ==
    /\ count["c.send"] <= 1 /\ count["c.recv"] <= 1
    /\ Returned("rc") =>
         /\ count["c.send"] = 1 /\ count["c.recv"] = 1
         /\ ~RecvTakes(c) /\ ~c.closed
         /\ rcG \in {"ret", "exited"}

C8_Witness == Returned("rc") /\ rcG = "exited" /\ pc = "exit"

\* C9: the counter is 1 after Add, decremented once, by the goroutine after
\* its write, never negative; Wait returns only with the counter at 0, and
\* not while the goroutine has not called Done.
C9_Counter ==
    /\ wg >= 0
    /\ pc = "wg_go" => wg = 1
    /\ count["wg.Done"] <= 1
    /\ count["wg.Done"] = 1 => count["wgI.write"] = 1 /\ wg = 0
    /\ (count["wg.Add"] = 1 /\ count["wg.Done"] = 0) => wg = 1
    /\ count["wg.Wait"] = 1 => wg = 0 /\ count["wg.Done"] = 1
    /\ count["wg.Done"] = 0 => count["wg.Wait"] = 0 /\ ~Returned("wg")

C9_Witness == pc = "wg_return" /\ wg = 0 /\ count["wg.Done"] = 1

\* C10: the lock is held exactly while the caller is inside get or the
\* goroutine inside set; once both have returned the mutex is unlocked.
C10_LockReleased ==
    /\ sn.m <=> (InGet \/ InSet)
    /\ (GetOver /\ SetOver) => ~sn.m

C10_Witness == GetOver /\ SetOver /\ ~sn.m /\ count["val.write"] = 1


\* C11: under fair scheduling of every goroutine the program does not
\* deadlock: each of the four calls returns, main prints all four results and
\* ends; the caller at get's Lock gets the lock, and the goroutine at set's
\* Lock is not held off for ever by a locked mutex.
C11_NoDeadlock ==
    /\ \A p \in {"wg", "ch", "rc", "mu"} : <>Returned(p)
    /\ <>(pc = "exit" /\ Len(out) = 8)
    /\ (pc = "get_lock") ~> (pc = "get_read")
    /\ (muG = "set_lock" /\ sn.m) ~> (~sn.m \/ muG # "set_lock")

C11_Witness == pc = "exit" /\ Len(out) = 8 /\ DOMAIN ret = {"wg", "ch", "rc", "mu"}


\* C12: the driver runs the four patterns once each in the order waitgroup,
\* signal channel, future channel, mutex; the result of a pattern is printed
\* before the next pattern starts; the first three values printed are 5.
C12_DriverOrder ==
    /\ pc \in {MainPcs[k] : k \in 1..Len(MainPcs)}
    /\ \E v \in {0, 5} : IsPrefix(out, Transcript(v))
    /\ wgG # "none" => Len(out) = 1 \/ Returned("wg")
    /\ (chG # "none" \/ Returned("ch")) => Len(out) >= 3 /\ Returned("wg")
    /\ (rcG # "none" \/ Returned("rc")) => Len(out) >= 5 /\ Returned("ch")
    /\ (muG # "none" \/ Returned("mu")) => Len(out) >= 7 /\ Returned("rc")
    /\ Returned("wg") => Len(out) = 1 \/ out[2] = ret["wg"]
    /\ Returned("ch") => Len(out) = 3 \/ out[4] = ret["ch"]
    /\ Returned("rc") => Len(out) = 5 \/ out[6] = ret["rc"]
    /\ Returned("mu") => Len(out) = 7 \/ out[8] = ret["mu"]
    /\ count["wg.Wait"] <= 1 /\ count["done.recv"] <= 1
    /\ count["c.recv"] <= 1 /\ count["val.read"] <= 1
    /\ pc = "exit" => \A e \in {"wg.Wait", "done.recv", "c.recv", "val.read"} : count[e] = 1

C12_Witness == pc = "m_label4" /\ out = SubSeq(Transcript(5), 1, 6)


\* C13: on done one send and one receive are made and they complete in the
\* same step: the send is not complete before the caller has come to its
\* receive, the receive is not complete before the goroutine has come to its
\* send, and afterwards done is empty, not closed and not used again.
C13_Rendezvous ==
    /\ [](/\ count["done.send"] = count["done.recv"] /\ count["done.send"] <= 1
          /\ chG \in {"ret", "exited"} <=> count["done.send"] = 1
          /\ Past("ch_recv_parked") <=> count["done.recv"] = 1
          /\ chG = "parked" <=> SenderParked(done)
          /\ pc = "ch_recv_parked" <=> ReceiverParked(done)
          /\ ~(SenderParked(done) /\ ReceiverParked(done))
          /\ ~done.closed
          /\ count["done.recv"] = 1 => done = MakeChan)
    /\ [][count["done.send"]' # count["done.send"] =>
            \/ chG = "parked" /\ pc = "ch_recv"
            \/ chG = "send" /\ pc = "ch_recv_parked"]_vars

C13_Witness == pc = "ch_return" /\ chG = "ret" /\ count["done.send"] = 1


\* C14: the state of a pattern is changed only by its caller, while it runs
\* the pattern, and by the pattern's goroutine; the integer of a pattern is
\* written by the goroutine alone and at most once; no step changes the state
\* of two patterns.
C14_Frame ==
    /\ [](count["wgI.write"] <= 1 /\ count["chI.write"] <= 1 /\ count["val.write"] <= 1)
    /\ [][/\ wgVars' # wgVars => (pc \in {"wg_add", "wg_go"} \/ wgG' # wgG)
          /\ chVars' # chVars => (pc \in {"ch_go", "ch_recv"} \/ chG' # chG)
          /\ rcVars' # rcVars => (pc \in {"rc_go", "m_recv"} \/ rcG' # rcG)
          /\ muVars' # muVars =>
               (pc \in {"mu_go", "get_lock", "get_read", "get_unlock"} \/ muG' # muG)
          /\ wgI' # wgI => wgG = "write" /\ wgG' = "done" /\ pc' = pc
          /\ chI' # chI => chG = "write" /\ chG' = "send" /\ pc' = pc
          /\ sn.val' # sn.val => muG = "set_write" /\ muG' = "set_unlock" /\ pc' = pc
          /\ Cardinality({k \in 1..4 :
                 <<wgVars, chVars, rcVars, muVars>>[k]' # <<wgVars, chVars, rcVars, muVars>>[k]}) <= 1
         ]_vars

C14_Witness ==
    /\ pc = "exit"
    /\ count["wgI.write"] = 1 /\ count["chI.write"] = 1 /\ count["val.write"] = 1


\* C15: the counter rendezvous with zero spawned tasks: where the caller is
\* at Wait and the counter was never raised (no Add, no goroutine), Wait is
\* enabled at once, and the routine returns with no Done having been called.
C15_ZeroTasks ==
    /\ (pc = "wg_wait" /\ count["wg.Add"] = 0) =>
         wg = 0 /\ wgG = "none" /\ ENABLED WgWait
    /\ (Returned("wg") /\ count["wg.Add"] = 0) =>
         count["wg.Wait"] = 1 /\ count["wg.Done"] = 0 /\ wgG = "none"

C15_Witness == pc = "wg_return" /\ count["wg.Add"] = 0 /\ count["wg.Wait"] = 1


\* C16: useMutex returns 5 exactly if the goroutine took the mutex before the
\* caller's get did: while the caller holds the lock the goroutine is either
\* still at set's Lock or through with set, and get reads 5 in the second case
\* and 0, with the write not yet made, in the first.
C16_ReturnFollowsLockOrder ==
    /\ InGet => (muG = "set_lock" \/ SetOver)
    /\ (pc = "get_read" /\ SetOver) => sn.val = 5 /\ count["val.write"] = 1
    /\ (pc = "get_read" /\ muG = "set_lock") => sn.val = 0 /\ count["val.write"] = 0
    /\ pc = "get_unlock" =>
         /\ getRet = 5 <=> SetOver
         /\ getRet = 0 <=> (muG = "set_lock" /\ count["val.write"] = 0)
    /\ Returned("mu") => ret["mu"] = getRet

\* useMutex has returned 0 and the goroutine is about to write.
C16_Witness == Returned("mu") /\ ret["mu"] = 0 /\ muG = "set_write" /\ sn.val = 0


\* C17: the goroutine of returningWithChannel stays at its send until a
\* receive is made on c: while no receive has been made it has not ended, its
\* value has not been delivered, and once it is parked none of its steps is
\* enabled; it is past its send only when the receive has been made.
C17_SenderWaitsForReceive ==
    /\ count["c.recv"] = 0 =>
         /\ rcG \in {"none", "send", "parked"}
         /\ ~Returned("rc")
         /\ count["c.send"] = 0
    /\ rcG = "parked" => c.sendq = <<5>> /\ ~ENABLED RcGoroutine
    /\ rcG \in {"ret", "exited"} =>
         count["c.recv"] = 1 /\ Returned("rc") /\ Past("m_recv_parked")

\* the goroutine is parked at its send before main has even got the channel
C17_Witness == rcG = "parked" /\ pc = "rc_return" /\ count["c.recv"] = 0


\* C18: when blockingWithWaitgroups or blockingWithChannel has returned, its
\* goroutine has made its one write and its one signal (Done, the send), and
\* i keeps the value that was read; useMutex, by contrast, returns in states
\* where its goroutine has not yet started set.
C18_NoWriteAfterRead ==
    /\ [](/\ Reached("wg_return") =>
               /\ wgG \in {"ret", "exited"}
               /\ count["wgI.write"] = 1 /\ count["wg.Done"] = 1
          /\ Returned("wg") => wgI = ret["wg"]
          /\ Reached("ch_return") =>
               /\ chG \in {"ret", "exited"}
               /\ count["chI.write"] = 1 /\ count["done.send"] = 1
          /\ Returned("ch") => chI = ret["ch"])
    /\ [][(Reached("wg_return") => wgI' = wgI) /\ (Reached("ch_return") => chI' = chI)]_vars

\* useMutex has returned and its goroutine has not started set
C18_Witness ==
    /\ Returned("wg") /\ Returned("ch") /\ Returned("mu")
    /\ muG = "set_lock" /\ count["val.write"] = 0

====
